---- MODULE Spec2Model ----
(***************************************************************************)
(* img2wav: the wav container codec (wav.h) and its callers.               *)
(*                                                                         *)
(* Two generations of wav.h are modelled side by side:                     *)
(*   "stream"  src/src/wav.h        check_error on every failure, one      *)
(*                                  fread per sample, bit depths 16/24/32  *)
(*   "bulk"    src/unnamed/part_003 wav_fopen/wav_fseek/wav_malloc that    *)
(*                                  die(), one fread into a staging map,   *)
(*                                  bit depths 8/16/24/32                  *)
(*                                                                         *)
(* A file is the sequence of its bytes.  A uint32_t is kept as its four    *)
(* little-endian bytes (it is what the file holds, and arithmetic on it    *)
(* wraps modulo 2^32 exactly as in C); a float is kept as the three fields *)
(* of its IEEE-754 binary32 encoding.                                      *)
(***************************************************************************)
EXTENDS Integers, Sequences, FiniteSets, TLC

(***************************************************************************)
(* Bounds of the model                                                     *)
(***************************************************************************)
MaxNc == 3
MaxNs == 2

(***************************************************************************)
(* Program constants                                                       *)
(***************************************************************************)
WAV_KEY_SIZE == 4
WAV_VALUE_SIZE == 1
WAV_HEADER_SIZE == 25
WAV_DATA_OFFSET == 44

(***************************************************************************)
(* Integer helpers                                                         *)
(***************************************************************************)
Min(a, b) == IF a < b THEN a ELSE b

Abs(a) == IF a < 0 THEN -a ELSE a

\* the powers of two an int holds, 2^0 to 2^30
Pow2Table ==
    << 1, 2, 4, 8, 16, 32, 64, 128, 256, 512, 1024, 2048, 4096, 8192, 16384, 32768,
       65536, 131072, 262144, 524288, 1048576, 2097152, 4194304, 8388608, 16777216,
       33554432, 67108864, 134217728, 268435456, 536870912, 1073741824 >>

Pow2(n) == Pow2Table[n + 1]

\* the first k elements of s, or all of s when it is shorter
Take(s, k) == SubSeq(s, 1, Min(k, Len(s)))

\* s without its first k elements
Drop(s, k) == SubSeq(s, Min(k, Len(s)) + 1, Len(s))

\* the k little-endian bytes of the natural n (n modulo 256^k): the object
\* representation of an unsigned integer on the little-endian targets wav.h
\* supports
RECURSIVE LE(_, _)
LE(n, k) == IF k = 0 THEN <<>> ELSE <<n % 256>> \o LE(n \div 256, k - 1)

\* the natural a little-endian byte sequence stands for (below 2^31 only)
RECURSIVE LEVal(_)
LEVal(b) == IF b = <<>> THEN 0 ELSE b[1] + 256 * LEVal(Tail(b))

\* two's complement: the k low bytes (k <= 3) of the signed integer v
LESigned(v, k) == LE(v % Pow2(8 * k), k)

(***************************************************************************)
(* uint32_t arithmetic on four little-endian bytes, wrapping modulo 2^32   *)
(***************************************************************************)
\* a * d + c over Len(a) bytes, the carry out of the top byte dropped
RECURSIVE MulCarry(_, _, _)
MulCarry(a, d, c) ==
    IF a = <<>> THEN <<>>
    ELSE LET t == a[1] * d + c
         IN  <<t % 256>> \o MulCarry(Tail(a), d, t \div 256)

\* uint32_t * int (the int converted to unsigned), modulo 2^32
u32_mul(a, d) == MulCarry(a, d, 0)

\* uint32_t + int, modulo 2^32
u32_add(a, d) == MulCarry(a, 1, d)

\* quotient bytes 1..i of a / d, rem the remainder carried down from above
RECURSIVE DivFrom(_, _, _, _)
DivFrom(a, d, i, rem) ==
    IF i = 0 THEN <<>>
    ELSE LET r == rem * 256 + a[i]
         IN  DivFrom(a, d, i - 1, r % d) \o <<r \div d>>

\* uint32_t / int, d > 0
u32_div(a, d) == DivFrom(a, d, Len(a), 0)

u32_odd(a) == a[1] % 2 = 1

(***************************************************************************)
(* float (IEEE-754 binary32): sign s, biased exponent e, fraction m.       *)
(* The value of a normal number is (-1)^s * (2^23 + m) * 2^(e - 150); e = 0*)
(* and m = 0 is zero.  Subnormals, infinities and NaNs do not occur for    *)
(* the sample values and constants of the codec.                           *)
(***************************************************************************)
F32(s, e, m) == [s |-> s, e |-> e, m |-> m]

FIsZero(f) == f.e = 0 /\ f.m = 0

\* the four bytes of the float as fwrite(&f, sizeof f, 1, file) emits them
F32Bytes(f) ==
    << f.m % 256, (f.m \div 256) % 256,
       (f.e % 2) * 128 + f.m \div 65536, f.s * 128 + f.e \div 2 >>

\* the float fread(&f, sizeof f, 1, file) stores for four bytes
BytesF32(b) ==
    F32(b[4] \div 128, (b[4] % 128) * 2 + b[3] \div 128,
        (b[3] % 128) * 65536 + b[2] * 256 + b[1])

RECURSIVE Log2(_)
Log2(n) == IF n <= 1 THEN 0 ELSE 1 + Log2(n \div 2)

\* (float) v * 2^-k for an integer v of at most 24 significant bits: exact
IntToF32(v, k) ==
    IF v = 0 THEN F32(0, 0, 0)
    ELSE LET a == Abs(v)
             p == Log2(a)
         IN  F32(IF v < 0 THEN 1 ELSE 0, 127 + p - k, a * Pow2(23 - p) - Pow2(23))

\* f * g in float arithmetic: the exact product of the two 24-bit
\* significands (taken in 12-bit limbs), rounded to nearest, ties to even
FMul(f, g) ==
    IF FIsZero(f) \/ FIsZero(g) THEN F32((f.s + g.s) % 2, 0, 0)
    ELSE LET Pack(e0, sig1) ==
                 IF sig1 = Pow2(24)
                 THEN F32((f.s + g.s) % 2, e0 + 1, 0)
                 ELSE F32((f.s + g.s) % 2, e0, sig1 - Pow2(23))
             Round(e0, sig, rest, half) ==
                 Pack(e0, IF rest > half \/ (rest = half /\ sig % 2 = 1)
                          THEN sig + 1 ELSE sig)
             Norm(hi, lo) ==
                 IF hi >= Pow2(23)
                 THEN Round(f.e + g.e - 127 + 1, hi, lo, Pow2(23))
                 ELSE Round(f.e + g.e - 127, 2 * hi + lo \div Pow2(23),
                            lo % Pow2(23), Pow2(22))
             Sum(hh, cross, losum) ==
                 Norm(hh + cross \div 4096 + losum \div Pow2(24), losum % Pow2(24))
             Cross(hh, cross, ll) == Sum(hh, cross, (cross % 4096) * 4096 + ll)
             Limbs(a1, a0, b1, b0) == Cross(a1 * b1, a1 * b0 + a0 * b1, a0 * b0)
             Mul(a, b) == Limbs(a \div 4096, a % 4096, b \div 4096, b % 4096)
         IN  Mul(Pow2(23) + f.m, Pow2(23) + g.m)

\* the long division of two significands: k more quotient bits after sig,
\* rem < d being what is left of the dividend
RECURSIVE DivSig(_, _, _, _)
DivSig(rem, d, k, sig) ==
    IF k = 0 THEN [sig |-> sig, rem |-> rem]
    ELSE IF 2 * rem >= d THEN DivSig(2 * rem - d, d, k - 1, 2 * sig + 1)
    ELSE DivSig(2 * rem, d, k - 1, 2 * sig)

\* f / g in float arithmetic for g # 0: the quotient of the two 24-bit
\* significands to 24 bits, rounded to nearest, ties to even
FDiv(f, g) ==
    IF FIsZero(f) THEN F32((f.s + g.s) % 2, 0, 0)
    ELSE LET Pack(e0, sig1) ==
                 IF sig1 = Pow2(24)
                 THEN F32((f.s + g.s) % 2, e0 + 1, 0)
                 ELSE F32((f.s + g.s) % 2, e0, sig1 - Pow2(23))
             Round(e0, q, d) ==
                 Pack(e0, IF 2 * q.rem > d \/ (2 * q.rem = d /\ q.sig % 2 = 1)
                          THEN q.sig + 1 ELSE q.sig)
             Quot(a, d) ==
                 IF a >= d
                 THEN Round(f.e - g.e + 127, DivSig(a - d, d, 23, 1), d)
                 ELSE Round(f.e - g.e + 126, DivSig(2 * a - d, d, 23, 1), d)
         IN  Quot(Pow2(23) + f.m, Pow2(23) + g.m)

\* fabs(f)
FAbs(f) == F32(0, f.e, f.m)

\* f > g
FGreater(f, g) ==
    IF FIsZero(f) /\ FIsZero(g) THEN FALSE
    ELSE IF f.s # g.s THEN f.s = 0
    ELSE IF f.s = 0 THEN f.e > g.e \/ (f.e = g.e /\ f.m > g.m)
    ELSE g.e > f.e \/ (g.e = f.e /\ g.m > f.m)

\* the magnitude of f truncated to an integer (|f| < 2^31)
FTruncAbs(f) ==
    IF f.e < 127 THEN 0
    ELSE IF f.e >= 150 THEN (Pow2(23) + f.m) * Pow2(f.e - 150)
    ELSE (Pow2(23) + f.m) \div Pow2(150 - f.e)

\* (int32_t) f: conversion of a float to a signed integer truncates toward 0
FTrunc(f) == IF f.s = 1 THEN -FTruncAbs(f) ELSE FTruncAbs(f)

\* lround(f): nearest integer, halfway cases away from zero
lround(f) ==
    LET twice == IF f.e < 126 THEN 0
                 ELSE IF f.e >= 149 THEN (Pow2(23) + f.m) * Pow2(f.e - 149)
                 ELSE (Pow2(23) + f.m) \div Pow2(149 - f.e)
        r     == (twice + 1) \div 2
    IN  IF f.s = 1 THEN -r ELSE r

\* the value of f in units of 2^-28 (exact for |f| < 4 and e >= 99 when the
\* low bits shifted out are zero, as they are for every float of the model)
Fix28(f) ==
    LET a == IF FIsZero(f) THEN 0
             ELSE IF f.e >= 122 THEN (Pow2(23) + f.m) * Pow2(f.e - 122)
             ELSE (Pow2(23) + f.m) \div Pow2(122 - f.e)
    IN  IF f.s = 1 THEN -a ELSE a

\* Fix28 loses nothing on f
Fix28Exact(f) ==
    FIsZero(f) \/ f.e >= 122 \/ (f.e >= 99 /\ (Pow2(23) + f.m) % Pow2(122 - f.e) = 0)

(***************************************************************************)
(* Sample codec: the bodies of the per-sample loops of wav_write and       *)
(* wav_read                                                                *)
(***************************************************************************)
\* outcomes of (uint8_t) f for a float f whose truncation is negative: the
\* conversion is undefined; builds either reduce modulo 256 or saturate at 0
U8CastOutcomes == {"wrap", "zero"}

\* sizeof(long) * CHAR_BIT on the targets wav.h names (win32: 32, LP64: 64)
LongBits == {32, 64}

\* case 32 of wav_write: write_val(data[ch][i], file)
encode32(f) == F32Bytes(f)

\* case 24 of wav_write: lround(data[ch][i] * 0x7FFFFF) & 0xFFFFFF, 3 bytes
encode24(f) == LESigned(lround(FMul(f, IntToF32(8388607, 0))), 3)

\* the 16-bit encoding without the clamp
encode16_noclamp(f) == LESigned(FTrunc(FMul(f, IntToF32(32768, 0))), 2)

\* case 16 of wav_write: (int32_t) (data[ch][i] * 32768.0f), clamped, 2 bytes
encode16(f) ==
    LET clamp(v) == IF v < -32768 THEN -32768 ELSE IF v > 32767 THEN 32767 ELSE v
    IN  LESigned(clamp(FTrunc(FMul(f, IntToF32(32768, 0)))), 2)

\* case 8 of wav_write: (uint8_t) (128 + ((uint8_t) (data[ch][i] * 127.0f)))
encode8(f, cast) ==
    LET inner(t) == IF t >= 0 THEN t % 256
                    ELSE IF cast = "wrap" THEN t % 256 ELSE 0
    IN  <<(128 + inner(FTrunc(FMul(f, IntToF32(127, 0))))) % 256>>

\* the 32-bit decoding with the bytes taken in big-endian order
decode32_be(b) == BytesF32(<<b[4], b[3], b[2], b[1]>>)

\* case 32 of wav_read
decode32(b) == BytesF32(b)

\* case 24 of wav_read: the three bytes land in bytes 1..3 of a zeroed long,
\* so l1 = 256 * h where h is the wire value, sign-extended only when long is
\* 32 bits wide; (float) l1 / 2^31 = h / 2^23
decode24(b, long_bits) ==
    LET w == LEVal(b)
        h == IF long_bits = 32 /\ w >= Pow2(23) THEN w - Pow2(24) ELSE w
    IN  IntToF32(h, 23)

\* case 16 of wav_read: int16_t v; v * 0x1p-15f
decode16(b) ==
    LET w == LEVal(b)
        v == IF w >= 32768 THEN w - 65536 ELSE w
    IN  IntToF32(v, 15)

\* case 8 of wav_read: uint8_t v; (v - 128) * 0x1p-7f
decode8(b) == IntToF32(b[1] - 128, 7)

(***************************************************************************)
(* wav_config and wav_header                                               *)
(***************************************************************************)
\* struct wav_config: nc and bd are uint16_t, ns and sr are uint32_t
Cfg(nc, ns, sr, bd) == [nc |-> nc, ns |-> ns, sr |-> sr, bd |-> bd]

\* a wav_config whose ns and sr are small naturals
SmallCfg(nc, ns, sr, bd) == Cfg(nc, LE(ns, 4), LE(sr, 4), bd)

U32Zero == <<0, 0, 0, 0>>

\* the four chunk tags as chars
TagRIFF == <<82, 73, 70, 70>>
TagWAVE == <<87, 65, 86, 69>>
TagFmt  == <<102, 109, 116, 32>>
TagData == <<100, 97, 116, 97>>

\* wav_header_new: every field of the header from the four config values.
\* M * nc is an int product; multiplied by the uint32_t ns it wraps modulo
\* 2^32, as does sr * bd * nc; n_block_align is stored in a uint16_t.
wav_header_new(nc, ns, sr, bd) ==
    LET M     == bd \div 8
        size  == u32_mul(ns, M * nc)
        riff0 == u32_add(size, 28 + 8)
        riff  == IF u32_odd(riff0) THEN u32_add(riff0, 1) ELSE riff0
    IN  [ riff_title        |-> TagRIFF,
          riff_size         |-> riff,
          wave_title        |-> TagWAVE,
          wave_marker       |-> TagFmt,
          cksize            |-> LE(16, 4),
          format            |-> IF bd = 32 THEN 3 ELSE 1,
          num_channels      |-> nc,
          sample_rate       |-> sr,
          avg_bytes_per_sec |-> u32_div(u32_mul(u32_mul(sr, bd), nc), 8),
          n_block_align     |-> (M * nc) % 65536,
          bits_per_sample   |-> bd,
          data_title        |-> TagData,
          data_size         |-> size ]

\* write_key(key, file): fwrite of the 4 chars of the tag, returns 4
write_key(key) == [bytes |-> key, items |-> Len(key)]

\* write_val(val, file): fwrite of one object of sizeof(val) bytes, returns 1
write_val(bytes) == [bytes |-> bytes, items |-> WAV_VALUE_SIZE]

\* the header writes with format_code written as a 4-byte object
HeaderWrites_wide(h) ==
    << write_key(h.riff_title),
       write_val(h.riff_size),
       write_key(h.wave_title),
       write_key(h.wave_marker),
       write_val(h.cksize),
       write_val(LE(h.format, 4)),
       write_val(LE(h.num_channels, 2)),
       write_val(h.sample_rate),
       write_val(h.avg_bytes_per_sec),
       write_val(LE(h.n_block_align, 2)),
       write_val(LE(h.bits_per_sample, 2)),
       write_key(h.data_title),
       write_val(h.data_size) >>

\* the header writes with block_align and bit_depth in each other's place
HeaderWrites_swapped(h) ==
    << write_key(h.riff_title),
       write_val(h.riff_size),
       write_key(h.wave_title),
       write_key(h.wave_marker),
       write_val(h.cksize),
       write_val(LE(h.format, 2)),
       write_val(LE(h.num_channels, 2)),
       write_val(h.sample_rate),
       write_val(h.avg_bytes_per_sec),
       write_val(LE(h.bits_per_sample, 2)),
       write_val(LE(h.n_block_align, 2)),
       write_key(h.data_title),
       write_val(h.data_size) >>

\* the thirteen header writes of wav_write, in program order
HeaderWrites(h) ==
    << write_key(h.riff_title),
       write_val(h.riff_size),
       write_key(h.wave_title),
       write_key(h.wave_marker),
       write_val(h.cksize),
       write_val(LE(h.format, 2)),
       write_val(LE(h.num_channels, 2)),
       write_val(h.sample_rate),
       write_val(h.avg_bytes_per_sec),
       write_val(LE(h.n_block_align, 2)),
       write_val(LE(h.bits_per_sample, 2)),
       write_key(h.data_title),
       write_val(h.data_size) >>

\* the bytes a sequence of fwrite calls appends to the file
RECURSIVE WrittenBytes(_)
WrittenBytes(ws) ==
    IF ws = <<>> THEN <<>> ELSE Head(ws).bytes \o WrittenBytes(Tail(ws))

\* the sum of the counts the fwrite calls return (n += ...)
RECURSIVE WrittenItems(_)
WrittenItems(ws) ==
    IF ws = <<>> THEN 0 ELSE Head(ws).items + WrittenItems(Tail(ws))

\* bit depths the check_error of wav_write and wav_read lets through
SupportedBd(impl) == IF impl = "stream" THEN {32, 24, 16} ELSE {32, 24, 16, 8}

(***************************************************************************)
(* The caller's sample buffer (float **data) and the files on disk         *)
(***************************************************************************)
\* data[ch][i] is cells[ch + 1][i + 1]; null: the data pointer is NULL;
\* nullch: the channels whose pointer data[ch] is NULL
Buf(cells) == [null |-> FALSE, nullch |-> {}, cells |-> cells]

NullBuf == [null |-> TRUE, nullch |-> {}, cells |-> <<>>]

\* the one regular file of the model; "" can never be opened, NullPath is
\* the NULL pointer
Files == {"a.wav"}

NullPath == "<null>"

File(bytes) == [exists |-> TRUE, bytes |-> bytes]

NoFile == [exists |-> FALSE, bytes |-> <<>>]

\* the encoding of one sample, by case of the switch (cfg.bd) of wav_write
EncodeSample(bd, f, cast) ==
    CASE bd = 32 -> encode32(f)
      [] bd = 24 -> encode24(f)
      [] bd = 16 -> encode16(f)
      [] bd = 8  -> encode8(f, cast)
      [] OTHER   -> <<>>

\* the fwrite calls of the sample loops from slot k on: the outer loop runs
\* over the sample index i, the inner one over the channel ch
RECURSIVE PayloadWrites(_, _, _, _, _, _)
PayloadWrites(nc, ns, bd, data, cast, k) ==
    IF k >= ns * nc THEN <<>>
    ELSE LET i  == k \div nc
             ch == k % nc
         IN  <<write_val(EncodeSample(bd, data.cells[ch + 1][i + 1], cast))>>
             \o PayloadWrites(nc, ns, bd, data, cast, k + 1)

\* what a call leaves behind: the return value, whether it returned at all
\* ("returned"), ended the process through die() ("exited") or trapped
\* ("trapped"), how many FILE handles it opened and did not close, the disk
Outcome(ret, status, open, disk, hdr_end) ==
    [ret |-> ret, status |-> status, open |-> open, disk |-> disk, hdr_end |-> hdr_end]

\* the length of the file at path, -1 when there is none
FileLen(disk, path) ==
    IF path \in Files /\ disk[path].exists THEN Len(disk[path].bytes) ELSE -1

\* a destination opened for appending: the bytes follow what the file held
StoreFile_append(disk, path, bytes) ==
    [disk EXCEPT ![path] = File(disk[path].bytes \o bytes)]

\* the destination after fopen(path, "wb"), the fwrite calls and fclose: the
\* file holds the bytes written and nothing of what it held before
StoreFile(disk, path, bytes) == [disk EXCEPT ![path] = File(bytes)]

\* a prologue that lets every bit depth through
write_rejects_nobd(impl, cfg, path, data) ==
    \/ path = NullPath
    \/ data.null
    \/ cfg.nc = 0
    \/ cfg.ns = U32Zero
    \/ cfg.sr = U32Zero

\* the check_error prologue of wav_write, before fopen
write_rejects(impl, cfg, path, data) ==
    \/ path = NullPath
    \/ data.null
    \/ cfg.nc = 0
    \/ cfg.ns = U32Zero
    \/ cfg.sr = U32Zero
    \/ cfg.bd \notin SupportedBd(impl)

\* wav_write(cfg, path, data) on the disk; cast is the outcome the build
\* gives the undefined (uint8_t) conversion of a negative float.  fwrite to
\* an open FILE always takes the bytes (stdio buffers them).
wav_write(impl, cfg, path, data, cast, disk) ==
    IF write_rejects(impl, cfg, path, data)
    THEN Outcome(0, "returned", 0, disk, -1)
    ELSE IF path \notin Files
    THEN \* fopen(path, "wb") fails: check_error returns n, wav_fopen dies
         IF impl = "stream" THEN Outcome(0, "returned", 0, disk, -1)
         ELSE Outcome(0, "exited", 0, disk, -1)
    ELSE LET WriteSamples(header, hb, pw) ==
                 Outcome(WrittenItems(pw) \div cfg.nc, "returned", 0,
                         StoreFile(disk, path,
                             hb \o WrittenBytes(pw)
                                \o (IF u32_odd(header.data_size) THEN <<0>> ELSE <<>>)),
                         Len(hb))
             CheckHeader(header, n, hb) ==
                 IF n # 25
                 THEN Outcome(n, "returned", 1, StoreFile(disk, path, hb), -1)
                 ELSE WriteSamples(header, hb,
                               PayloadWrites(cfg.nc, LEVal(cfg.ns), cfg.bd, data, cast, 0))
             WriteHeader(header, hw) == CheckHeader(header, WrittenItems(hw), WrittenBytes(hw))
             WithHeader(header) == WriteHeader(header, HeaderWrites(header))
         IN  WithHeader(wav_header_new(cfg.nc, cfg.ns, cfg.sr, cfg.bd))

(***************************************************************************)
(* wav_get_header                                                          *)
(***************************************************************************)
read_key(tag) == [kind |-> "key", tag |-> tag, size |-> WAV_KEY_SIZE, field |-> ""]

read_val(field, size) == [kind |-> "val", tag |-> <<>>, size |-> size, field |-> field]

\* the thirteen header reads of wav_get_header, in program order; each
\* read_key is followed by the check_error that compares the tag
HeaderReads ==
    << read_key(TagRIFF),
       read_val("riff_size", 4),
       read_key(TagWAVE),
       read_key(TagFmt),
       read_val("cksize", 4),
       read_val("format", 2),
       read_val("num_channels", 2),
       read_val("sample_rate", 4),
       read_val("avg_bytes_per_sec", 4),
       read_val("n_block_align", 2),
       read_val("bits_per_sample", 2),
       read_key(TagData),
       read_val("data_size", 4) >>

\* the local wav_header before anything is read into it
NoHeader ==
    [ riff_size |-> <<>>, cksize |-> <<>>, format |-> <<>>, num_channels |-> <<>>,
      sample_rate |-> <<>>, avg_bytes_per_sec |-> <<>>, n_block_align |-> <<>>,
      bits_per_sample |-> <<>>, data_size |-> <<>> ]

\* reads i.. of wav_get_header on the bytes f, the stream at offset pos, n
\* items counted so far, key the char[4] buffer, vals the local header.
\* fread of a key returns the number of chars it got and leaves the rest of
\* the buffer as it was; fread of a value returns 1 only for a whole value.
\* fail is the index of the read whose tag check returned, 0 if none did.
RECURSIVE ReadHeader(_, _, _, _, _, _)
ReadHeader(f, i, pos, n, key, vals) ==
    IF i > Len(HeaderReads) THEN [n |-> n, fail |-> 0, vals |-> vals]
    ELSE LET r     == HeaderReads[i]
             avail == Len(f) - pos
         IN  IF r.kind = "key"
             THEN LET got  == Min(r.size, avail)
                      key1 == SubSeq(f, pos + 1, pos + got) \o SubSeq(key, got + 1, 4)
                  IN  IF key1 # r.tag
                      THEN [n |-> n + got, fail |-> i, vals |-> vals]
                      ELSE ReadHeader(f, i + 1, pos + got, n + got, key1, vals)
             ELSE IF avail >= r.size
                  THEN ReadHeader(f, i + 1, pos + r.size, n + 1, key,
                                  [vals EXCEPT ![r.field] = SubSeq(f, pos + 1, pos + r.size)])
                  ELSE ReadHeader(f, i + 1, Len(f), n, key, vals)

\* contents an uninitialised char[4] may hold
Garbage == {<<0, 0, 0, 0>>, TagRIFF}

\* outcomes of the unsigned division by zero: the process traps (SIGFPE), or
\* the division yields 0 and execution goes on
DivZeroOutcomes == {"trap", "zero"}

GetOutcome(ret, status, open, cfg) ==
    [ret |-> ret, status |-> status, open |-> open, cfg |-> cfg]

\* a check_error after the reads that assigns the channel count it has read
\* (0 when it has read none) before it returns
header_refused_assigning(p, cfg0) ==
    GetOutcome(p.n, "returned", 1, [cfg0 EXCEPT !.nc = LEVal(p.vals.num_channels)])

\* a check_error after the reads returns n, the items read so far: the file
\* stays open and *cfg is as it was, its fields being assigned further down
header_refused(p, cfg0) == GetOutcome(p.n, "returned", 1, cfg0)

\* wav_get_header(cfg, path): cfgnull says the cfg pointer is NULL, cfg0 is
\* what *cfg holds before the call
wav_get_header(impl, cfgnull, cfg0, path, garbage, divz, disk) ==
    IF cfgnull \/ path = NullPath THEN GetOutcome(0, "returned", 0, cfg0)
    ELSE IF path \notin Files \/ ~disk[path].exists
    THEN \* fopen(path, "rb") fails
         IF impl = "stream" THEN GetOutcome(0, "returned", 0, cfg0)
         ELSE GetOutcome(0, "exited", 0, cfg0)
    ELSE LET p == ReadHeader(disk[path].bytes, 1, 0, 0, garbage, NoHeader)
         IN  IF p.fail # 0 \/ p.n # WAV_HEADER_SIZE
             THEN header_refused(p, cfg0)
             ELSE LET nc == LEVal(p.vals.num_channels)
                      bd == LEVal(p.vals.bits_per_sample)
                      sr == p.vals.sample_rate
                      d  == (nc * bd) \div 8
                  IN  IF d = 0
                      THEN IF divz = "trap"
                           THEN GetOutcome(0, "trapped", 1, Cfg(nc, cfg0.ns, sr, bd))
                           ELSE GetOutcome(p.n, "returned", 0, Cfg(nc, U32Zero, sr, bd))
                      ELSE GetOutcome(p.n, "returned", 0,
                                      Cfg(nc, u32_div(p.vals.data_size, d), sr, bd))

(***************************************************************************)
(* wav_read                                                                *)
(***************************************************************************)
\* the decoding of one sample, by case of the switch (cfg.bd) of wav_read
DecodeSample(bd, b, long_bits) ==
    CASE bd = 32 -> decode32(b)
      [] bd = 24 -> decode24(b, long_bits)
      [] bd = 16 -> decode16(b)
      [] bd = 8  -> decode8(b)
      [] OTHER   -> F32(0, 0, 0)

\* values an indeterminate float (computed from an uninitialised or partly
\* read object) may take
Junk == {F32(0, 0, 0), F32(0, 126, 0)}

SetCell(cells, ch, i, f) == [cells EXCEPT ![ch + 1][i + 1] = f]

\* the sample loops of the sample-at-a-time wav_read from slot k on, the
\* stream at offset pos: one fread per sample.  A short fread adds 0 to n and
\* leaves the stream at the end of the file; the cell then keeps its value
\* when nothing was read into it (case 32 at end of file) and is
\* indeterminate otherwise (a partly read float; int32_t v and int16_t v are
\* not initialised).
RECURSIVE ReadSamples(_, _, _, _, _, _, _, _, _, _)
ReadSamples(nc, ns, bd, f, pos, k, cells, n, long_bits, junk) ==
    IF k >= ns * nc THEN [cells |-> cells, n |-> n]
    ELSE LET i     == k \div nc
             ch    == k % nc
             M     == bd \div 8
             avail == Len(f) - pos
         IN  IF avail >= M
             THEN ReadSamples(nc, ns, bd, f, pos + M, k + 1,
                              SetCell(cells, ch, i,
                                      DecodeSample(bd, SubSeq(f, pos + 1, pos + M), long_bits)),
                              n + 1, long_bits, junk)
             ELSE ReadSamples(nc, ns, bd, f, Len(f), k + 1,
                              IF bd = 32 /\ avail <= 0 THEN cells
                              ELSE SetCell(cells, ch, i, junk),
                              n, long_bits, junk)

\* the decode loops of the bulk wav_read over the staging map, from slot k on
RECURSIVE DecodeMap(_, _, _, _, _, _, _)
DecodeMap(nc, ns, bd, map, k, cells, long_bits) ==
    IF k >= ns * nc THEN cells
    ELSE LET i  == k \div nc
             ch == k % nc
             M  == bd \div 8
         IN  DecodeMap(nc, ns, bd, map, k + 1,
                       SetCell(cells, ch, i,
                               DecodeSample(bd, SubSeq(map, k * M + 1, k * M + M), long_bits)),
                       long_bits)

ReadOutcome(ret, status, open, buf) ==
    [ret |-> ret, status |-> status, open |-> open, buf |-> buf]

\* the prologue without its loop over the channel pointers
read_rejects_nochannel(impl, cfg, path, data) ==
    \/ cfg.nc = 0
    \/ cfg.ns = U32Zero
    \/ cfg.sr = U32Zero
    \/ cfg.bd \notin SupportedBd(impl)
    \/ path = NullPath
    \/ data.null

\* the check_error prologue shared by both wav_read
read_rejects(impl, cfg, path, data) ==
    \/ cfg.nc = 0
    \/ cfg.ns = U32Zero
    \/ cfg.sr = U32Zero
    \/ cfg.bd \notin SupportedBd(impl)
    \/ path = NullPath
    \/ data.null
    \/ \E ch \in 0..(cfg.nc - 1) : ch \in data.nullch

\* src/src/wav.h wav_read: seek_ok says fseek(file, 44, SEEK_SET) returned 0
wav_read_stream(cfg, path, data, seek_ok, long_bits, junk, disk) ==
    IF read_rejects("stream", cfg, path, data) THEN ReadOutcome(0, "returned", 0, data)
    ELSE IF path \notin Files \/ ~disk[path].exists THEN ReadOutcome(0, "returned", 0, data)
    ELSE IF ~seek_ok THEN ReadOutcome(0, "returned", 1, data)
    ELSE LET r == ReadSamples(cfg.nc, LEVal(cfg.ns), cfg.bd, disk[path].bytes,
                              44, 0, data.cells, 0, long_bits, junk)
         IN  ReadOutcome(r.n \div cfg.nc, "returned", 1, [data EXCEPT !.cells = r.cells])

\* part_003 wav_read: wav_fopen dies when fopen fails; wav_fseek dies when
\* fseek returns 0, that is when the seek succeeded; when the seek failed the
\* stream is still at offset 0 and the payload is read from there
wav_read_bulk(cfg, path, data, seek_ok, long_bits, junk, disk) ==
    IF read_rejects("bulk", cfg, path, data) THEN ReadOutcome(0, "returned", 0, data)
    ELSE IF path \notin Files \/ ~disk[path].exists THEN ReadOutcome(0, "exited", 0, data)
    ELSE IF seek_ok THEN ReadOutcome(0, "exited", 0, data)
    ELSE LET M     == cfg.bd \div 8
             total == LEVal(cfg.ns) * cfg.nc * M
             map   == Take(disk[path].bytes, total)
             n     == Len(map)
         IN  IF n # total THEN ReadOutcome(n, "returned", 1, data)
             ELSE ReadOutcome(n \div (M * cfg.nc), "returned", 1,
                              [data EXCEPT !.cells =
                                  DecodeMap(cfg.nc, LEVal(cfg.ns), cfg.bd, map, 0,
                                            data.cells, long_bits)])

\* wav_read gets past its prologue and its fopen, and calls fseek
reaches_fseek(impl, cfg, path, data, disk) ==
    ~read_rejects(impl, cfg, path, data) /\ path \in Files /\ disk[path].exists

\* some fread of the sample loops finds less than a sample left in the file
reads_short(cfg, path, disk) ==
    /\ path \in Files
    /\ Len(disk[path].bytes) < 44 + LEVal(cfg.ns) * cfg.nc * (cfg.bd \div 8)

wav_read(impl, cfg, path, data, seek_ok, long_bits, junk, disk) ==
    IF impl = "stream"
    THEN wav_read_stream(cfg, path, data, seek_ok, long_bits, junk, disk)
    ELSE wav_read_bulk(cfg, path, data, seek_ok, long_bits, junk, disk)

(***************************************************************************)
(* Inputs of the model                                                     *)
(***************************************************************************)
\* sample values in [-1.0, 1.0]: +-1, +-0.5, +-0.99f, +-2^-7, +-0,
\* 0.75 + 2^-24, -(1 - 2^-24)
Samples ==
    << F32(0, 127, 0), F32(1, 127, 0), F32(0, 126, 0), F32(1, 126, 0),
       F32(0, 126, 8220836), F32(1, 126, 8220836), F32(0, 120, 0), F32(1, 120, 0),
       F32(0, 0, 0), F32(1, 0, 0), F32(0, 126, 4194305), F32(1, 126, 8388607) >>

\* the places in Samples a buffer of the model starts at
Firsts == {1, 5, 9}

\* what the caller's buffer holds before wav_read fills it (0.125)
Stale == F32(0, 124, 0)

\* what the caller's wav_config holds before wav_get_header fills it
StaleCfg == SmallCfg(7, 7, 7, 7)

SampleRate == 44100

Impls == {"stream", "bulk"}

\* a buffer of nc channels of ns samples, the sample values taken in turn
\* from Samples starting at the first-th
PatternBuf(nc, ns, first) ==
    Buf([ch \in 1..nc |->
            [i \in 1..ns |-> Samples[((first - 1 + (ch - 1) * ns + (i - 1)) % Len(Samples)) + 1]]])

\* a buffer of nc channels of ns samples as the caller allocates it
FreshBuf(nc, ns) == Buf([ch \in 1..nc |-> [i \in 1..ns |-> Stale]])

\* the configs the prologue of the newer wav_write accepts: the smallest and
\* the largest channel count and sample count, every bit depth
ValidCfgs ==
    {SmallCfg(nc, ns, SampleRate, bd) : nc \in {1, MaxNc}, ns \in {1, MaxNs}, bd \in {8, 16, 24, 32}}

\* configs with one field the check_error prologue refuses
BadCfgs ==
    { SmallCfg(0, 1, SampleRate, 16), SmallCfg(1, 0, SampleRate, 16),
      SmallCfg(1, 1, 0, 16), SmallCfg(1, 1, SampleRate, 0),
      SmallCfg(1, 1, SampleRate, 12), SmallCfg(1, 1, SampleRate, 64) }

Args(cfg, path, data) == [cfg |-> cfg, path |-> path, data |-> data]

\* the arguments of the wav_write calls of the model: every valid config with
\* each buffer, and one call for each argument the prologue refuses or fopen
\* fails on
WriteArgs ==
    { Args(c, "a.wav", PatternBuf(c.nc, LEVal(c.ns), first)) : c \in ValidCfgs, first \in Firsts }
    \cup { Args(c, "a.wav", PatternBuf(1, 1, 1)) : c \in BadCfgs }
    \cup { Args(SmallCfg(1, 1, SampleRate, 16), path, PatternBuf(1, 1, 1)) : path \in {"", NullPath} }
    \cup { Args(SmallCfg(1, 1, SampleRate, 16), "a.wav", NullBuf) }

\* configs wav_read is called with whatever the file holds
FixedReadCfgs ==
    { SmallCfg(1, 1, SampleRate, 16), SmallCfg(MaxNc, 1, SampleRate, 24),
      SmallCfg(MaxNc, MaxNs, SampleRate, 32), SmallCfg(1, MaxNs, SampleRate, 8) }

\* the arguments of the wav_read calls of the model: the config the file was
\* written with (w, when there is one) and the fixed ones, and one call for
\* each argument the prologue refuses or fopen fails on
ReadArgs(w) ==
    { Args(c, "a.wav", FreshBuf(c.nc, LEVal(c.ns))) :
        c \in FixedReadCfgs \cup (IF w.valid THEN {w.cfg} ELSE {}) }
    \cup { Args(c, "a.wav", FreshBuf(1, 1)) : c \in BadCfgs }
    \cup { Args(SmallCfg(1, 1, SampleRate, 16), path, FreshBuf(1, 1)) : path \in {"", NullPath} }
    \cup { Args(SmallCfg(1, 1, SampleRate, 16), "a.wav", NullBuf),
           Args(SmallCfg(1, 1, SampleRate, 16), "a.wav", [FreshBuf(1, 1) EXCEPT !.nullch = {0}]) }

\* bytes an outside writer puts into a file: a tag char replaced by 'X', the
\* low byte of channel_count or of bits_per_sample cleared
Corruptions ==
    { [pos |-> 0, byte |-> 88], [pos |-> 8, byte |-> 88], [pos |-> 12, byte |-> 88],
      [pos |-> 36, byte |-> 88], [pos |-> 22, byte |-> 0], [pos |-> 34, byte |-> 0] }

\* lengths a file is cut down to
TruncLens(len) == {l \in {3, 43, len - 1} : l >= 0 /\ l < len}

(***************************************************************************)
(* State                                                                   *)
(***************************************************************************)
VARIABLES
    fs,     \* the disk: for each file whether it exists, and its bytes
    wrote,  \* the last wav_write that ran to its end, and whether its file
            \* still stands as it left it (intact)
    call,   \* the call the caller has just made, with what it left behind
    hdr,    \* a header-only run of wav_write and wav_get_header (SpecHdr)
    cli     \* a run of the command-line program (SpecCli)

vars == <<fs, wrote, call, hdr, cli>>

NotWritten ==
    [ valid |-> FALSE, intact |-> FALSE, cfg |-> StaleCfg, path |-> "", data |-> NullBuf,
      cast |-> "wrap" ]

\* no call in progress: the caller is between two calls
NoCall ==
    [ op |-> "none", impl |-> "", cfg |-> StaleCfg, path |-> "", data |-> NullBuf,
      nullcfg |-> FALSE, seek_ok |-> TRUE, long_bits |-> 0,
      ret |-> 0, status |-> "", open |-> 0, cfg_out |-> StaleCfg, buf |-> NullBuf,
      hdr_end |-> -1, pre_len |-> -1 ]

HdrIdle == [stage |-> "idle"]

CliIdle == [stage |-> "idle"]

Init ==
    /\ fs = [p \in Files |-> NoFile]
    /\ wrote = NotWritten
    /\ call = NoCall
    /\ hdr = HdrIdle
    /\ cli = CliIdle

(***************************************************************************)
(* Actions: one per call of the public interface                           *)
(***************************************************************************)
WavWrite ==
    /\ call.op = "none"
    /\ \E impl \in Impls, a \in WriteArgs :
         \E cast \in (IF a.cfg.bd = 8 THEN U8CastOutcomes ELSE {"wrap"}) :
            \E r \in {wav_write(impl, a.cfg, a.path, a.data, cast, fs)} :
                /\ fs' = r.disk
                /\ call' = [NoCall EXCEPT !.op = "write", !.impl = impl, !.cfg = a.cfg,
                                          !.path = a.path, !.data = a.data,
                                          !.buf = a.data,
                                          !.ret = r.ret, !.status = r.status,
                                          !.open = r.open, !.hdr_end = r.hdr_end,
                                          !.pre_len = FileLen(fs, a.path)]
                /\ wrote' = IF r.status = "returned" /\ r.hdr_end >= 0
                            THEN [valid |-> TRUE, intact |-> TRUE, cfg |-> a.cfg,
                                  path |-> a.path, data |-> a.data, cast |-> cast]
                            ELSE IF r.disk # fs THEN NotWritten ELSE wrote
    /\ UNCHANGED <<hdr, cli>>

\* a source opened with "wb": fopen truncates the file that is there
fopen_rb_truncating(disk, path) ==
    IF path \in Files /\ disk[path].exists THEN [disk EXCEPT ![path] = File(<<>>)] ELSE disk

\* the disk after a wav_get_header or wav_read of path: the one fopen they
\* call has the mode "rb", and the fread calls that follow change no file
fopen_rb(disk, path) == disk

\* the arguments of the wav_get_header calls of the model
GetArgs ==
    { [path |-> "a.wav", nullcfg |-> FALSE], [path |-> "", nullcfg |-> FALSE],
      [path |-> NullPath, nullcfg |-> FALSE], [path |-> "a.wav", nullcfg |-> TRUE] }

WavGetHeader ==
    /\ call.op = "none"
    /\ \E impl \in Impls, a \in GetArgs, garbage \in Garbage, divz \in DivZeroOutcomes :
         LET r == wav_get_header(impl, a.nullcfg, StaleCfg, a.path, garbage, divz, fs)
         IN  call' = [NoCall EXCEPT !.op = "get_header", !.impl = impl, !.path = a.path,
                                    !.nullcfg = a.nullcfg, !.ret = r.ret,
                                    !.status = r.status, !.open = r.open,
                                    !.cfg_out = r.cfg]
    /\ fs' = fopen_rb(fs, call'.path)
    /\ UNCHANGED <<wrote, hdr, cli>>

WavRead ==
    /\ call.op = "none"
    /\ \E impl \in Impls, a \in ReadArgs(wrote) :
         \E seek_ok \in (IF reaches_fseek(impl, a.cfg, a.path, a.data, fs)
                          THEN BOOLEAN ELSE {TRUE}),
            long_bits \in (IF a.cfg.bd = 24 THEN LongBits ELSE {64}),
            junk \in (IF reads_short(a.cfg, a.path, fs) THEN Junk ELSE {Stale}) :
            LET r == wav_read(impl, a.cfg, a.path, a.data, seek_ok, long_bits, junk, fs)
            IN  call' = [NoCall EXCEPT !.op = "read", !.impl = impl, !.cfg = a.cfg,
                                       !.path = a.path, !.data = a.data,
                                       !.seek_ok = seek_ok, !.long_bits = long_bits,
                                       !.ret = r.ret, !.status = r.status,
                                       !.open = r.open, !.buf = r.buf]
    /\ fs' = fopen_rb(fs, call'.path)
    /\ UNCHANGED <<wrote, hdr, cli>>

\* the caller takes the result and goes on (a process ended by die() or by a
\* trap is started again)
Return ==
    /\ call.op # "none"
    /\ call' = NoCall
    /\ UNCHANGED <<fs, wrote, hdr, cli>>

(***************************************************************************)
(* Actions of the environment: another program changes the file wav_write  *)
(* left, once                                                              *)
(***************************************************************************)
Corrupt ==
    /\ call.op = "none"
    /\ wrote.valid /\ wrote.intact
    /\ \E p \in Files, c \in Corruptions :
         /\ fs[p].exists
         /\ c.pos < Len(fs[p].bytes)
         /\ fs[p].bytes[c.pos + 1] # c.byte
         /\ fs' = [fs EXCEPT ![p].bytes[c.pos + 1] = c.byte]
    /\ wrote' = [wrote EXCEPT !.intact = FALSE]
    /\ UNCHANGED <<call, hdr, cli>>

Truncate ==
    /\ call.op = "none"
    /\ wrote.valid /\ wrote.intact
    /\ \E p \in Files :
         /\ fs[p].exists
         /\ \E l \in TruncLens(Len(fs[p].bytes)) :
              fs' = [fs EXCEPT ![p].bytes = Take(fs[p].bytes, l)]
    /\ wrote' = [wrote EXCEPT !.intact = FALSE]
    /\ UNCHANGED <<call, hdr, cli>>

Next == WavWrite \/ WavGetHeader \/ WavRead \/ Return \/ Corrupt \/ Truncate

Spec == Init /\ [][Next]_vars

(***************************************************************************)
(* Header-only runs: wav_write up to its last header write and the length  *)
(* of the file it goes on to produce, then wav_get_header on that file,    *)
(* for configs whose payload is too large to enumerate byte by byte.       *)
(***************************************************************************)
U32Max == <<255, 255, 255, 255>>

\* a uint32_t as an eight-byte natural
Wide(a) == a \o <<0, 0, 0, 0>>

HdrCfgs ==
    { Cfg(nc, ns, sr, bd) :
        nc \in {1, 2, 65535},
        ns \in {LE(1, 4), LE(3, 4), LE(16385, 4), <<0, 0, 0, 128>>, U32Max},
        sr \in {LE(SampleRate, 4), U32Max},
        bd \in {8, 16, 24, 32} }

HdrRun(stage, impl, cfg, bytes, len, ret, cfg_out) ==
    [ stage |-> stage, impl |-> impl, cfg |-> cfg, bytes |-> bytes, len |-> len,
      ret |-> ret, cfg_out |-> cfg_out ]

HInit ==
    /\ fs = [p \in Files |-> NoFile]
    /\ wrote = NotWritten
    /\ call = NoCall
    /\ cli = CliIdle
    /\ hdr \in { HdrRun("config", impl, c, <<>>, Wide(U32Zero), 0, StaleCfg) :
                 impl \in Impls, c \in HdrCfgs }

\* wav_write: the prologue, the thirteen header writes, and the number of
\* bytes the file holds when wav_write returns: the header, ns * nc samples
\* of bd / 8 bytes each, and the pad byte if header->data.size is odd
HWrite ==
    /\ hdr.stage = "config"
    /\ LET c == hdr.cfg
       IN  IF write_rejects(hdr.impl, c, "a.wav", FreshBuf(1, 1))
           THEN hdr' = [hdr EXCEPT !.stage = "rejected"]
           ELSE LET header == wav_header_new(c.nc, c.ns, c.sr, c.bd)
                    hw     == HeaderWrites(header)
                    hb     == WrittenBytes(hw)
                    pad    == IF u32_odd(header.data_size) THEN 1 ELSE 0
                    len    == MulCarry(MulCarry(Wide(c.ns), c.nc * (c.bd \div 8), 0),
                                       1, Len(hb) + pad)
                IN  hdr' = [hdr EXCEPT !.stage = "written", !.bytes = hb, !.len = len]
    /\ UNCHANGED <<fs, wrote, call, cli>>

\* wav_get_header on the file HWrite left: it reads no byte past the header
HGetHeader ==
    /\ hdr.stage = "written"
    /\ \E garbage \in Garbage, divz \in DivZeroOutcomes :
         LET r == wav_get_header(hdr.impl, FALSE, StaleCfg, "a.wav", garbage, divz,
                                 [p \in Files |-> File(hdr.bytes)])
         IN  hdr' = [hdr EXCEPT !.stage = IF r.status = "returned" THEN "parsed" ELSE r.status,
                                !.ret = r.ret, !.cfg_out = r.cfg]
    /\ UNCHANGED <<fs, wrote, call, cli>>

HNext == HWrite \/ HGetHeader

SpecHdr == HInit /\ [][HNext]_vars

(***************************************************************************)
(* The command-line program: main of part_000 (built with either wav.h,    *)
(* check_error on the result of wav_write) and main of src/src/img2wav.c   *)
(* (built with the first wav.h, the one of the three-field                 *)
(* wav_write_config).  sample_rate is a small integer, time_s a number of  *)
(* half seconds (t2); the image is either loaded or not; the amplitudes    *)
(* get_freqs and normalize leave are taken from Samples.                   *)
(***************************************************************************)
TagFact == <<102, 97, 99, 116>>

\* uint16_t M = header->wave.bitsPerSample / 8 of the first wav_header_new
\* reads the field before it is assigned: what malloc left there
IndeterminateM == {0, 4}

\* the sixteen header writes of the first wav_write: the fields of the first
\* wav_header_new, with its fact chunk, in program order
first_header_writes(nc, ns, sr, M) ==
    << write_key(TagRIFF),
       write_val(IF u32_odd(u32_add(u32_mul(ns, M * nc), 72))
                 THEN u32_add(u32_mul(ns, M * nc), 73)
                 ELSE u32_add(u32_mul(ns, M * nc), 72)),
       write_key(TagWAVE),
       write_key(TagFmt),
       write_val(LE(16, 4)),
       write_val(LE(3, 2)),
       write_val(LE(nc, 2)),
       write_val(sr),
       write_val(u32_div(u32_mul(u32_mul(sr, 32), nc), 8)),
       write_val(LE((M * nc) % 65536, 2)),
       write_val(LE(32, 2)),
       write_key(TagFact),
       write_val(LE(4, 4)),
       write_val(u32_mul(ns, nc)),
       write_key(TagData),
       write_val(u32_mul(ns, M * nc)) >>

\* fwrite(data, sizeof(*data), cfg.ns, file): the floats as they are in memory
RECURSIVE RawFloats(_)
RawFloats(fl) ==
    IF fl = <<>> THEN <<>> ELSE F32Bytes(Head(fl)) \o RawFloats(Tail(fl))

\* the first wav_write: no check of the config, return n when fopen fails,
\* the header, the floats, the pad byte; n counts the header items only
wav_write_first(cfg, path, fl, M, disk) ==
    IF path \notin Files THEN Outcome(0, "returned", 0, disk, -1)
    ELSE LET Write(hw) ==
                 Outcome(WrittenItems(hw), "returned", 0,
                         StoreFile(disk, path,
                             WrittenBytes(hw) \o RawFloats(fl)
                                \o (IF u32_odd(u32_mul(cfg.ns, M * cfg.nc)) THEN <<0>> ELSE <<>>)),
                         Len(WrittenBytes(hw)))
         IN  Write(first_header_writes(cfg.nc, cfg.ns, cfg.sr, M))

\* the wav.h a program is built with
Builds == { [prog |-> "part_000", impl |-> impl] : impl \in Impls }
              \cup { [prog |-> "img2wav.c", impl |-> "first"] }

\* argc, atof(argv[1]), twice atof(argv[2]), whether stbi_load loads argv[3]
\* as RGB, argv[4]
CliInputs ==
    [ argc : {1, 5}, sr : {0, 1, 2}, t2 : {0, 1, 2, 4}, image_ok : BOOLEAN,
      dest : {"a.wav", ""} ]

CliRun(stage, build, in, n, status, called) ==
    [ stage |-> stage, prog |-> build.prog, impl |-> build.impl, argc |-> in.argc,
      sr |-> in.sr, t2 |-> in.t2, image_ok |-> in.image_ok, dest |-> in.dest,
      n |-> n, status |-> status, called |-> called ]

EXIT_SUCCESS == 0

EXIT_FAILURE == 1

CInit ==
    /\ fs = [p \in Files |-> NoFile]
    /\ wrote = NotWritten
    /\ call = NoCall
    /\ hdr = HdrIdle
    /\ cli \in { CliRun("args", b, in, 0, -1, FALSE) : b \in Builds, in \in CliInputs }

\* main up to the call of wav_write: the argument count, the two atof, then
\* get_pixels and get_freqs, whose *size = time_s * fs cells come from
\* calloc; calloc(0, ...) returns NULL or a pointer
MainLoad ==
    /\ cli.stage = "args"
    /\ \E calloc0 \in (IF (cli.sr * cli.t2) \div 2 = 0 THEN {"null", "ptr"} ELSE {"ptr"}) :
         cli' = IF cli.argc < 5
                THEN [cli EXCEPT !.stage = "exit",
                                 !.status = IF cli.prog = "part_000" THEN EXIT_FAILURE
                                            ELSE EXIT_SUCCESS]
                ELSE IF cli.sr = 0 \/ cli.t2 = 0 \/ ~cli.image_ok \/ calloc0 = "null"
                THEN [cli EXCEPT !.stage = "exit", !.status = EXIT_FAILURE]
                ELSE [cli EXCEPT !.stage = "loaded", !.n = (cli.sr * cli.t2) \div 2]
    /\ UNCHANGED <<fs, wrote, call, hdr>>

\* the rest of main of part_000: wav_config cfg = {1, n, sample_rate, 24}
\* and check_error on wav_write(...) != n * cfg.nc; die() of the wav.h ends
\* the process with EXIT_FAILURE
MainWrite ==
    /\ cli.stage = "loaded" /\ cli.prog = "part_000"
    /\ \E r \in { wav_write(cli.impl, SmallCfg(1, cli.n, cli.sr, 24), cli.dest,
                            PatternBuf(1, cli.n, 1), "wrap", fs) } :
         /\ fs' = r.disk
         /\ cli' = [cli EXCEPT !.stage = "exit", !.called = TRUE,
                               !.status = IF r.status # "returned" \/ r.ret # cli.n * 1
                                          THEN EXIT_FAILURE ELSE EXIT_SUCCESS]
    /\ UNCHANGED <<wrote, call, hdr>>

\* the rest of main of src/src/img2wav.c: wav_write_config cfg = {1, n,
\* sample_rate}, the result of wav_write dropped, return EXIT_SUCCESS
MainWriteFirst ==
    /\ cli.stage = "loaded" /\ cli.prog = "img2wav.c"
    /\ \E M \in IndeterminateM :
         fs' = wav_write_first(SmallCfg(1, cli.n, cli.sr, 32), cli.dest,
                               PatternBuf(1, cli.n, 1).cells[1], M, fs).disk
    /\ cli' = [cli EXCEPT !.stage = "exit", !.called = TRUE, !.status = EXIT_SUCCESS]
    /\ UNCHANGED <<wrote, call, hdr>>

CNext == MainLoad \/ MainWrite \/ MainWriteFirst

SpecCli == CInit /\ [][CNext]_vars

(***************************************************************************)
(* The synthesis functions of the command-line program, each applied to    *)
(* inputs of its own: get_freqs (the sizes and the cells it writes; the    *)
(* amplitudes themselves are sums of sines and are not computed) and       *)
(* normalize.  float expressions are evaluated in float.                   *)
(***************************************************************************)
\* find_max from index i on, max being the local of that name
RECURSIVE find_max_from(_, _, _)
find_max_from(src, i, max) ==
    IF i > Len(src) THEN FAbs(max)
    ELSE find_max_from(src, i + 1, IF FGreater(FAbs(src[i]), max) THEN src[i] ELSE max)

\* find_max(src, n): float max = 0.0f; if (fabs(src[i]) > max) max = src[i];
\* return fabs(max)
find_max(src) == find_max_from(src, 1, F32(0, 0, 0))

\* normalize(src, n): every element divided by find_max when that exceeds 1.0
normalize(src) ==
    LET Scale(max) ==
            IF FGreater(max, F32(0, 127, 0))
            THEN [i \in 1..Len(src) |-> FDiv(src[i], max)]
            ELSE src
    IN  Scale(find_max(src))

\* get_freqs: target = (fs * time_s) / width and *size = time_s * fs, both
\* converted to int; column x adds to rp[0 .. target - 1] with rp = result +
\* x * target, for every pixel of the column that is not skipped.  lit is the
\* set of columns with such a pixel; first and last are the lowest and the
\* highest index written, -1 when no cell is written
get_freqs(sample_rate, time_s, width, lit) ==
    LET Cells(size, target) ==
            [ size   |-> size,
              target |-> target,
              first  |-> IF lit = {} \/ target <= 0 THEN -1
                         ELSE target * (CHOOSE x \in lit : \A y \in lit : x <= y),
              last   |-> IF lit = {} \/ target <= 0 THEN -1
                         ELSE target * (CHOOSE x \in lit : \A y \in lit : x >= y)
                                + target - 1 ]
    IN  Cells(FTrunc(FMul(time_s, sample_rate)),
              FTrunc(FDiv(FMul(sample_rate, time_s), IntToF32(width, 0))))

\* the longest array normalize is applied to
MaxLen == 3

\* amplitudes get_freqs leaves: sums of sines of either sign, some above 1
Amplitudes ==
    { F32(0, 128, 4194304), F32(1, 128, 4194304), F32(0, 128, 0), F32(1, 128, 0),
      F32(0, 126, 0), F32(1, 127, 4194304) }

RECURSIVE Arrays(_)
Arrays(n) ==
    IF n = 0 THEN {<<>>}
    ELSE Arrays(n - 1) \cup { Append(a, v) : a \in {b \in Arrays(n - 1) : Len(b) = n - 1},
                                               v \in Amplitudes }

\* atof(argv[1]) and atof(argv[2]) as floats: 1, 8, 32768, 44100 and
\* 0.5, 1, 2, 1024
SampleRates == { IntToF32(1, 0), IntToF32(8, 0), IntToF32(32768, 0), IntToF32(44100, 0) }

Times == { IntToF32(1, 1), IntToF32(1, 0), IntToF32(2, 0), IntToF32(1024, 0) }

\* image widths, and the columns that hold a pixel of 10 or more: none, the
\* first, the last, all
Widths == {1, 2, 3, 5, 7}

LitColumns(width) == { {}, {0}, {width - 1}, 0..(width - 1) }

SInit ==
    /\ fs = [p \in Files |-> NoFile]
    /\ wrote = NotWritten
    /\ call = NoCall
    /\ hdr = HdrIdle
    /\ cli \in UNION { { [stage |-> "pixels", sample_rate |-> sr, time_s |-> t,
                             width |-> w, lit |-> l] :
                              sr \in SampleRates, t \in Times, l \in LitColumns(w) } :
                          w \in Widths }
             \cup { [stage |-> "freqs", src |-> a] : a \in Arrays(MaxLen) \ {<<>>} }

\* float *freqs = get_freqs(pixels, sample_rate, time_s, x, y, &n)
GetFreqs ==
    /\ cli.stage = "pixels"
    /\ cli' = [ stage |-> "synthesized", width |-> cli.width, lit |-> cli.lit,
                out |-> get_freqs(cli.sample_rate, cli.time_s, cli.width, cli.lit) ]
    /\ UNCHANGED <<fs, wrote, call, hdr>>

\* normalize(freqs, n)
Normalize ==
    /\ cli.stage = "freqs"
    /\ cli' = [stage |-> "normalized", src |-> cli.src, out |-> normalize(cli.src)]
    /\ UNCHANGED <<fs, wrote, call, hdr>>

SNext == GetFreqs \/ Normalize

SpecSynth == SInit /\ [][SNext]_vars

(***************************************************************************)
(* Properties                                                              *)
(***************************************************************************)
ValidBd == {8, 16, 24, 32}

\* a config the spec calls valid
ValidCfg(c) == c.nc > 0 /\ c.ns # U32Zero /\ c.sr # U32Zero /\ c.bd \in ValidBd

\* |f - g| <= num / den, both floats taken in units of 2^-28
Within(f, g, num, den) == Abs(Fix28(f) - Fix28(g)) <= (num * Pow2(28)) \div den

\* every cell of b is within num / den of the same cell of a
AllWithin(a, b, num, den) ==
    \A ch \in 1..Len(a.cells) : \A i \in 1..Len(a.cells[ch]) :
        Within(a.cells[ch][i], b.cells[ch][i], num, den)

\* the call just made is a wav_read of the file the last wav_write left, with
\* the config it was written with, into a buffer of nc channels of ns cells,
\* by the given wav_read, the seek to the payload having succeeded
ReadBack(impl, bd) ==
    /\ call.op = "read"
    /\ ~call.data.null /\ call.data.nullch = {}
    /\ call.impl = impl
    /\ wrote.valid /\ wrote.intact
    /\ call.cfg = wrote.cfg
    /\ call.path = wrote.path
    /\ call.cfg.bd = bd
    /\ call.seek_ok

\* the header run has gone past wav_write
HdrWritten == hdr.stage \notin {"idle", "config", "rejected"}

\* C1: after wav_write of a valid config, wav_get_header on the same path
\* returns WAV_HEADER_SIZE and recovers nc, sr, bd and ns as written
C1_HeaderRoundTrip ==
    (hdr.stage \notin {"idle", "config", "written"} /\ ValidCfg(hdr.cfg))
        => (hdr.stage = "parsed" /\ hdr.ret = WAV_HEADER_SIZE /\ hdr.cfg_out = hdr.cfg)

\* C2: a 16-bit wav_write followed by wav_read of the same file returns
\* every sample within 1e-4 of the sample written
C2_RoundTrip16 ==
    ReadBack("stream", 16)
        => (call.status = "returned" /\ AllWithin(wrote.data, call.buf, 1, 10000))

C2_Witness ==
    /\ ReadBack("stream", 16)
    /\ wrote.data.cells[1][1] = Samples[1]
    /\ call.buf.cells[1][1] = IntToF32(32767, 15)
    /\ \E ch \in 1..Len(wrote.data.cells) : \E i \in 1..Len(wrote.data.cells[ch]) :
          wrote.data.cells[ch][i].s = 1 /\ call.buf.cells[ch][i].s = 1

\* C3: a 24-bit wav_write followed by wav_read of the same file returns
\* every sample, the negative ones included, within 1e-6 of the sample written
C3_RoundTrip24 ==
    ReadBack("stream", 24)
        => (call.status = "returned" /\ AllWithin(wrote.data, call.buf, 1, 1000000))

\* C4: an 8-bit wav_write followed by wav_read of the same file returns
\* every sample within 1/128 of the sample written
C4_RoundTrip8 ==
    ReadBack("bulk", 8)
        => (call.status = "returned" /\ AllWithin(wrote.data, call.buf, 1, 128))

\* C5: a 32-bit wav_write followed by wav_read of the same file returns
\* every sample unchanged, bit for bit, at the same channel and index
C5_RoundTrip32 ==
    ReadBack("stream", 32)
        => /\ call.status = "returned"
           /\ call.buf.cells = wrote.data.cells
           /\ \A ch \in 1..Len(call.buf.cells) : \A i \in 1..Len(call.buf.cells[ch]) :
                 F32Bytes(call.buf.cells[ch][i]) = F32Bytes(wrote.data.cells[ch][i])

C5_Witness ==
    /\ ReadBack("stream", 32)
    /\ wrote.cfg.nc = MaxNc /\ wrote.cfg.ns = LE(MaxNs, 4)
    /\ call.buf.cells[1][1] = Samples[1]
    /\ call.buf.cells[MaxNc][MaxNs] # Samples[1]
    /\ call.buf.cells[MaxNc][MaxNs] # Stale

\* C6: when wav_write has written its header and turns to the samples, the
\* file holds exactly 44 bytes, whatever the bit depth and channel count, and
\* the first sample follows at offset 44, where wav_read seeks
C6_HeaderIs44Bytes ==
    (call.op = "write" /\ call.hdr_end >= 0)
        => /\ call.hdr_end = WAV_DATA_OFFSET
           /\ LET M == call.cfg.bd \div 8
              IN  SubSeq(fs[call.path].bytes, WAV_DATA_OFFSET + 1, WAV_DATA_OFFSET + M)
                    = EncodeSample(call.cfg.bd, call.data.cells[1][1], wrote.cast)

C6_Witness ==
    /\ call.op = "write" /\ call.hdr_end = 44
    /\ call.cfg.bd = 8 /\ call.cfg.nc = MaxNc
    /\ Len(fs[call.path].bytes) > 44

\* C7: the file wav_write leaves is 44 + data_size + (data_size mod 2) bytes
\* long, data_size being the data chunk's size field, and the RIFF size
\* field is 36 + data_size + pad, that is the file length minus 8
C7_PaddedLength ==
    HdrWritten
        => LET data_size == SubSeq(hdr.bytes, 41, 44)
               riff_size == SubSeq(hdr.bytes, 5, 8)
               pad       == IF u32_odd(data_size) THEN 1 ELSE 0
           IN  /\ hdr.len = MulCarry(Wide(data_size), 1, WAV_DATA_OFFSET + pad)
               /\ Wide(riff_size) = MulCarry(Wide(data_size), 1, 36 + pad)
               /\ MulCarry(Wide(riff_size), 1, 8) = hdr.len

\* C8: a wav_write whose config has nc = 0, ns = 0, sr = 0 or a bit depth
\* outside {8, 16, 24, 32} returns 0 and leaves the file system as it was:
\* the destination is neither created nor truncated
C8_RejectsInvalid ==
    [][(call.op = "none" /\ call'.op = "write" /\ ~ValidCfg(call'.cfg))
          => (call'.status = "returned" /\ call'.ret = 0 /\ fs' = fs)]_vars

C8_Witness ==
    /\ call.op = "write" /\ ~ValidCfg(call.cfg) /\ call.cfg.bd = 12
    /\ call.status = "returned" /\ call.ret = 0
    /\ wrote.valid /\ wrote.intact
    /\ fs[call.path].exists /\ Len(fs[call.path].bytes) > WAV_DATA_OFFSET

\* C9: a wav_write of a valid config with a non-null buffer to a destination
\* that can be opened returns sample_count
C9_WriteReturnsCount ==
    (call.op = "write" /\ ValidCfg(call.cfg) /\ ~call.data.null /\ call.path \in Files)
        => (call.status = "returned" /\ call.ret = LEVal(call.cfg.ns))

\* the file presents a full 44-byte header with the four tags in their places
FullHeader(f) ==
    /\ f.exists
    /\ Len(f.bytes) >= WAV_DATA_OFFSET
    /\ SubSeq(f.bytes, 1, 4) = TagRIFF
    /\ SubSeq(f.bytes, 9, 12) = TagWAVE
    /\ SubSeq(f.bytes, 13, 16) = TagFmt
    /\ SubSeq(f.bytes, 37, 40) = TagData

\* C10: wav_get_header returns WAV_HEADER_SIZE and fills the config exactly
\* when the file presents a full 44-byte header with the four tags; with a
\* tag corrupted it returns another value and leaves the config alone
C10_HeaderAccepted ==
    (call.op = "get_header" /\ call.path \in Files /\ ~call.nullcfg)
        => LET f      == fs[call.path]
               accept == /\ call.status = "returned"
                         /\ call.ret = WAV_HEADER_SIZE
                         /\ call.cfg_out.nc = LEVal(SubSeq(f.bytes, 23, 24))
                         /\ call.cfg_out.sr = SubSeq(f.bytes, 25, 28)
                         /\ call.cfg_out.bd = LEVal(SubSeq(f.bytes, 35, 36))
               refuse == /\ call.status = "returned"
                         /\ call.ret # WAV_HEADER_SIZE
                         /\ call.cfg_out = StaleCfg
           IN  IF FullHeader(f) THEN accept
               ELSE IF f.exists /\ Len(f.bytes) >= WAV_DATA_OFFSET THEN refuse
               ELSE ~(call.status = "returned" /\ call.ret = WAV_HEADER_SIZE)

\* the k-th sample slot of M bytes after the header
Slot(bytes, k, M) ==
    SubSeq(bytes, WAV_DATA_OFFSET + k * M + 1, WAV_DATA_OFFSET + (k + 1) * M)

\* C11: for every valid config the payload is interleaved by channel: the
\* encoded sample of buffer[ch][i] is in slot i * nc + ch after the header,
\* and wav_read of the file, by either wav_read, returns with buffer[ch][i]
\* decoded from that same slot
C11_Interleaved ==
    /\ (call.op = "write" /\ call.hdr_end >= 0)
          => \A ch \in 0..(call.cfg.nc - 1) : \A i \in 0..(LEVal(call.cfg.ns) - 1) :
                Slot(fs[call.path].bytes, i * call.cfg.nc + ch, call.cfg.bd \div 8)
                  = EncodeSample(call.cfg.bd, call.data.cells[ch + 1][i + 1], wrote.cast)
    /\ \A impl \in Impls : \A bd \in ValidBd :
          ReadBack(impl, bd)
             => /\ call.status = "returned"
                /\ \A ch \in 0..(call.cfg.nc - 1) : \A i \in 0..(LEVal(call.cfg.ns) - 1) :
                      call.buf.cells[ch + 1][i + 1]
                        = DecodeSample(bd, Slot(fs[call.path].bytes, i * call.cfg.nc + ch,
                                                bd \div 8), call.long_bits)

\* C12: wav_write with a valid config and a destination that cannot be
\* opened returns 0 to its caller: the process goes on
C12_OpenFailureReturns ==
    (call.op = "write" /\ ValidCfg(call.cfg) /\ ~call.data.null
                       /\ call.path \notin Files /\ call.path # NullPath)
        => (call.status = "returned" /\ call.ret = 0)

\* the call opened its file and then returned an error
ErrorAfterOpen ==
    /\ call.status = "returned"
    /\ call.path \in Files /\ fs[call.path].exists
    /\ \/ call.op = "get_header" /\ ~call.nullcfg /\ call.ret # WAV_HEADER_SIZE
       \/ /\ call.op = "read"
          /\ reaches_fseek(call.impl, call.cfg, call.path, call.data, fs)
          /\ call.ret # LEVal(call.cfg.ns)

\* C13: on every error return after the file was opened, the handle the
\* operation opened is closed before it returns
C13_ClosedOnError == ErrorAfterOpen => call.open = 0

\* a config the prologue of the operation refuses
RefusedCfg(impl, cfg) ==
    cfg.nc = 0 \/ cfg.ns = U32Zero \/ cfg.sr = U32Zero \/ cfg.bd \notin SupportedBd(impl)

\* the failure kinds of the three operations, "ok" when there is none
WriteKind(impl, cfg, path) ==
    IF RefusedCfg(impl, cfg) THEN "config" ELSE IF path \notin Files THEN "open" ELSE "ok"

GetKind(path, disk) ==
    IF path \notin Files \/ ~disk[path].exists THEN "open"
    ELSE IF Len(disk[path].bytes) < WAV_DATA_OFFSET THEN "short"
    ELSE IF ~FullHeader(disk[path]) THEN "tag" ELSE "ok"

ReadKind(impl, cfg, path, disk) ==
    IF RefusedCfg(impl, cfg) THEN "config"
    ELSE IF path \notin Files \/ ~disk[path].exists THEN "open"
    ELSE IF reads_short(cfg, path, disk) THEN "short" ELSE "ok"

\* the two results tell the two calls apart: both returned, with two values
Distinct(status, ret, r) ==
    status = "returned" /\ r.status = "returned" /\ r.ret # ret

\* C14: each failure kind of wav_write, wav_get_header and wav_read comes
\* back as a return value that no other failure kind of the operation, and
\* no success, comes back as: any other call of the operation on the disk as
\* it stands whose kind differs returns another value
C14_FailuresDistinct ==
    /\ (call.op = "write" /\ ~call.data.null /\ call.path # NullPath)
          => \A a \in {b \in WriteArgs : ~b.data.null /\ b.path # NullPath} :
                WriteKind(call.impl, a.cfg, a.path) # WriteKind(call.impl, call.cfg, call.path)
                   => Distinct(call.status, call.ret,
                               wav_write(call.impl, a.cfg, a.path, a.data, "wrap", fs))
    /\ (call.op = "get_header" /\ ~call.nullcfg /\ call.path # NullPath)
          => \A a \in {b \in GetArgs : ~b.nullcfg /\ b.path # NullPath} :
                GetKind(a.path, fs) # GetKind(call.path, fs)
                   => Distinct(call.status, call.ret,
                               wav_get_header(call.impl, FALSE, StaleCfg, a.path,
                                              U32Zero, "trap", fs))
    /\ (call.op = "read" /\ ~call.data.null /\ call.data.nullch = {} /\ call.path # NullPath)
          => \A a \in {b \in ReadArgs(wrote) :
                         ~b.data.null /\ b.data.nullch = {} /\ b.path # NullPath} :
                ReadKind(call.impl, a.cfg, a.path, fs) # ReadKind(call.impl, call.cfg, call.path, fs)
                   => Distinct(call.status, call.ret,
                               wav_read(call.impl, a.cfg, a.path, a.data, call.seek_ok,
                                        64, Stale, fs))

\* the arguments of the wav_read in progress are ones the claim says are refused
ReadRefusedArgs ==
    \/ call.cfg.nc = 0
    \/ call.cfg.ns = U32Zero
    \/ call.cfg.sr = U32Zero
    \/ call.cfg.bd \notin ValidBd
    \/ call.data.null
    \/ \E ch \in 0..(call.cfg.nc - 1) : ch \in call.data.nullch

\* C15: wav_read refuses a config with a zero channel count, sample count
\* or sample rate or a bit depth outside {8, 16, 24, 32}, a null buffer and a
\* null channel pointer: it returns 0, has opened no file and has written no
\* cell of the caller's buffer
C15_ReadRejects ==
    (call.op = "read" /\ ReadRefusedArgs)
        => /\ call.status = "returned"
           /\ call.ret = 0
           /\ call.open = 0
           /\ call.buf = call.data

\* a wav_read with a null channel pointer on a file that is there, and one
\* with a bit depth of 12
C15_Witness ==
    /\ call.op = "read" /\ call.status = "returned" /\ call.ret = 0
    /\ call.path \in Files /\ fs[call.path].exists
    /\ call.data.nullch # {} \/ call.cfg.bd = 12

\* the wav_read in progress has valid arguments and a source file that is there
ReadOfFile ==
    /\ call.op = "read"
    /\ ValidCfg(call.cfg)
    /\ ~call.data.null /\ call.data.nullch = {}
    /\ call.path \in Files /\ fs[call.path].exists

\* C16: wav_read of a file with fewer than ns * nc encoded samples after
\* offset 44 never returns cfg.ns
C16_TruncatedNotComplete ==
    (ReadOfFile /\ reads_short(call.cfg, call.path, fs) /\ call.status = "returned")
        => call.ret # LEVal(call.cfg.ns)

\* C17: for a valid config of bit depth 16, 24 or 32 and a file of at least
\* 44 + ns * nc * (bd / 8) bytes, the wav_read that reads sample by sample and
\* the one that reads the payload at once return the same value and leave the
\* same buffer
C17_ReadsEquivalent ==
    (ReadOfFile /\ call.impl = "stream" /\ call.cfg.bd \in {16, 24, 32}
                /\ ~reads_short(call.cfg, call.path, fs))
        => \E r \in {wav_read("bulk", call.cfg, call.path, call.data, call.seek_ok,
                              call.long_bits, Stale, fs)} :
              /\ call.status = "returned" /\ r.status = "returned"
              /\ r.ret = call.ret
              /\ r.buf = call.buf

\* the bytes of the header at offsets from..(from + n - 1)
At(from, n) == SubSeq(hdr.bytes, from + 1, from + n)

\* C18: the 44 header bytes wav_write leaves follow the fixed little-endian
\* layout: "RIFF" at 0, total_size at 4, "WAVE" at 8, "fmt " at 12, 16 at 16,
\* format_code at 20 (3 for a bit depth of 32, 1 otherwise), channel_count at
\* 22, sample_rate at 24, byte_rate at 28, block_align at 32, bit_depth at
\* 34, "data" at 36 and data_size at 40
C18_HeaderLayout ==
    HdrWritten
        => \E h \in {wav_header_new(hdr.cfg.nc, hdr.cfg.ns, hdr.cfg.sr, hdr.cfg.bd)} :
              /\ Len(hdr.bytes) = WAV_DATA_OFFSET
              /\ At(0, 4) = TagRIFF
              /\ At(4, 4) = h.riff_size
              /\ At(8, 4) = TagWAVE
              /\ At(12, 4) = TagFmt
              /\ At(16, 4) = <<16, 0, 0, 0>>
              /\ At(20, 2) = (IF hdr.cfg.bd = 32 THEN <<3, 0>> ELSE <<1, 0>>)
              /\ LEVal(At(22, 2)) = hdr.cfg.nc
              /\ At(24, 4) = hdr.cfg.sr
              /\ At(28, 4) = h.avg_bytes_per_sec
              /\ LEVal(At(32, 2)) = h.n_block_align
              /\ LEVal(At(34, 2)) = hdr.cfg.bd
              /\ At(36, 4) = TagData
              /\ At(40, 4) = h.data_size

\* a float header with the largest channel count, and an integer one
C18_Witness ==
    /\ hdr.stage = "written"
    /\ \/ hdr.cfg.bd = 32 /\ hdr.cfg.nc = 65535 /\ At(20, 2) = <<3, 0>>
       \/ hdr.cfg.bd = 16 /\ hdr.cfg.nc = 2 /\ At(32, 4) = <<4, 0, 16, 0>>

\* the destination holds the header and the n samples main asked for
DestWritten ==
    /\ cli.dest \in Files /\ fs[cli.dest].exists
    /\ Len(fs[cli.dest].bytes) >= WAV_DATA_OFFSET + cli.n * 3
    /\ cli.n > 0

\* C19: the command-line program exits with 0 only when the image was
\* loaded, the samples were synthesized and wav_write wrote them all; missing
\* arguments, a zero sample rate, a zero duration, an image that does not
\* load and a wav_write that fails each give the exit status 1
C19_ExitStatus ==
    cli.stage = "exit"
        => /\ cli.status = EXIT_SUCCESS
                => (cli.argc >= 5 /\ cli.image_ok /\ cli.called /\ DestWritten)
           /\ (cli.argc < 5 \/ cli.sr = 0 \/ cli.t2 = 0 \/ ~cli.image_ok
                 \/ (cli.called /\ ~DestWritten))
                => cli.status = EXIT_FAILURE

\* C20: wav_write to a path that holds a file replaces it entirely: the file
\* it leaves is the one the same call (by the same build) leaves where there
\* was no file, whatever the path held before, and the same call once more
\* leaves the disk as it is
C20_Replaces ==
    (call.op = "write" /\ call.hdr_end >= 0)
        => /\ fs[call.path]
                = wav_write(call.impl, call.cfg, call.path, call.data, wrote.cast,
                            [p \in Files |-> NoFile]).disk[call.path]
           /\ wav_write(call.impl, call.cfg, call.path, call.data, wrote.cast, fs).disk = fs

\* a wav_write over a file longer than the one it leaves
C20_Witness ==
    /\ call.op = "write" /\ call.hdr_end >= 0
    /\ call.pre_len > Len(fs[call.path].bytes)

\* the call in progress returned what the operation returns when it succeeds
Succeeded ==
    /\ call.status = "returned"
    /\ \/ call.op = "write" /\ call.hdr_end >= 0
       \/ call.op = "get_header" /\ call.ret = WAV_HEADER_SIZE
       \/ call.op = "read" /\ call.ret = LEVal(call.cfg.ns)

\* C21: when wav_write, wav_get_header or wav_read returns successfully, the
\* one handle it opened is closed: no handle of the call is left open
C21_NoHandleLeft == Succeeded => call.open = 0

\* C22: the header fields wav_write stores are the exact integer products:
\* block_align = nc * (bd / 8), byte_rate = sr * bd * nc / 8 = sr * block_align
\* and data_size = ns * nc * (bd / 8), none of them reduced modulo the width
\* of its field or of an intermediate product (the exact values are taken
\* in eight bytes)
C22_ExactProducts ==
    HdrWritten
        => /\ LEVal(At(32, 2)) = hdr.cfg.nc * (hdr.cfg.bd \div 8)
           /\ Wide(At(28, 4))
                = u32_div(MulCarry(MulCarry(Wide(hdr.cfg.sr), hdr.cfg.bd, 0), hdr.cfg.nc, 0), 8)
           /\ Wide(At(28, 4))
                = MulCarry(Wide(hdr.cfg.sr), hdr.cfg.nc * (hdr.cfg.bd \div 8), 0)
           /\ Wide(At(40, 4))
                = MulCarry(Wide(hdr.cfg.ns), hdr.cfg.nc * (hdr.cfg.bd \div 8), 0)

\* the bytes wav_read decoded cell (ch, i) of a config of nc channels and M
\* bytes a sample from: src/src/wav.h reads on from offset 44, part_003
\* reads on from wherever wav_fseek left the stream
ReadSlot(ch, i) ==
    SubSeq(fs[call.path].bytes,
           (IF call.seek_ok THEN WAV_DATA_OFFSET ELSE 0)
               + (i * call.cfg.nc + ch) * (call.cfg.bd \div 8) + 1,
           (IF call.seek_ok THEN WAV_DATA_OFFSET ELSE 0)
               + (i * call.cfg.nc + ch + 1) * (call.cfg.bd \div 8))

\* a wav_read that read its whole payload
ReadAll ==
    /\ call.op = "read" /\ call.status = "returned"
    /\ ValidCfg(call.cfg) /\ ~call.data.null /\ call.data.nullch = {}
    /\ call.ret = LEVal(call.cfg.ns)

\* C23: the 24-bit decode of wav_read sign-extends the 3-byte wire value,
\* whether long is 32 or 64 bits wide: every decoded sample lies in
\* [-1.0, 1.0), and a wire value with its top bit set decodes to a negative
\* sample
C23_SignExtended ==
    (ReadAll /\ call.cfg.bd = 24)
        => \A ch \in 0..(call.cfg.nc - 1) : \A i \in 0..(LEVal(call.cfg.ns) - 1) :
              /\ Fix28(call.buf.cells[ch + 1][i + 1]) >= -Pow2(28)
              /\ Fix28(call.buf.cells[ch + 1][i + 1]) < Pow2(28)
              /\ ReadSlot(ch, i)[3] >= 128 => call.buf.cells[ch + 1][i + 1].s = 1

\* C24: the 8-bit encode of wav_write yields, for every sample s in
\* [-1.0, 1.0], the byte 128 + truncate(s * 127) with no wrap-around: it lies
\* in [1, 255], is 128 for s = 0.0 and is below 128 for a negative s
C24_Encode8 ==
    (call.op = "write" /\ call.hdr_end >= 0 /\ call.cfg.bd = 8)
        => \A ch \in 0..(call.cfg.nc - 1) : \A i \in 0..(LEVal(call.cfg.ns) - 1) :
              \E s \in {call.data.cells[ch + 1][i + 1]} :
              \E b \in {Slot(fs[call.path].bytes, i * call.cfg.nc + ch, 1)[1]} :
                 /\ b = 128 + FTrunc(FMul(s, IntToF32(127, 0)))
                 /\ b >= 1 /\ b <= 255
                 /\ FIsZero(s) => b = 128
                 /\ (s.s = 1 /\ ~FIsZero(s)) => b < 128

C26_Normalized ==
    cli.stage = "normalized"
        => \A i \in 1..Len(cli.out) : ~FGreater(FAbs(cli.out[i]), F32(0, 127, 0))

\* C30: get_freqs writes no cell outside the size cells it allocates: the
\* cells written are among 0 .. width * target - 1 and width * target <= size
C30_WithinBuffer ==
    cli.stage = "synthesized"
        => /\ cli.width * cli.out.target <= cli.out.size
           /\ cli.out.last < cli.out.size
           /\ cli.out.last < cli.width * cli.out.target
           /\ cli.out.last >= 0 => cli.out.first >= 0

\* C27: the wav_read that reads the payload at once ends the process only
\* when the open or the seek fails: on a source file that is there and a seek
\* to offset 44 that succeeds, it returns to its caller
C27_BulkReadReturns ==
    (call.op = "read" /\ call.impl = "bulk")
        => /\ (reaches_fseek("bulk", call.cfg, call.path, call.data, fs) /\ call.seek_ok)
                => call.status = "returned"
           /\ call.status = "exited"
                => (call.path \notin Files \/ ~fs[call.path].exists \/ ~call.seek_ok)

\* C28: when wav_get_header returns anything but 25 (open failure, tag
\* mismatch, short header), the caller's wav_config is as it was before
C28_ConfigKept ==
    (call.op = "get_header" /\ call.status = "returned" /\ call.ret # WAV_HEADER_SIZE)
        => call.cfg_out = StaleCfg

\* a wav_get_header that stopped at a tag in the middle of the header
C28_Witness ==
    /\ call.op = "get_header" /\ call.status = "returned"
    /\ call.ret > 4 /\ call.ret < WAV_HEADER_SIZE
    /\ call.path \in Files /\ fs[call.path].exists
    /\ Len(fs[call.path].bytes) >= WAV_DATA_OFFSET
    /\ call.cfg_out = StaleCfg

\* C29: wav_get_header never divides by zero: a file with a full header and
\* four correct tags whose channel_count and bit depth give nc * bd / 8 = 0
\* is refused with an error return
C29_ZeroDivisorRefused ==
    (/\ call.op = "get_header" /\ ~call.nullcfg
     /\ call.path \in Files /\ FullHeader(fs[call.path])
     /\ (LEVal(SubSeq(fs[call.path].bytes, 23, 24))
           * LEVal(SubSeq(fs[call.path].bytes, 35, 36))) \div 8 = 0)
        => (call.status = "returned" /\ call.ret # WAV_HEADER_SIZE)

====
